---- MODULE Spec2Model ----
(***************************************************************************)
(* ArthursDen dashboard (src/app.py, src/utils.py): the in-memory account  *)
(* map, the session cookies, the rate limiter around the market-data       *)
(* handler, the market view built by the handler, and the input            *)
(* validators.                                                             *)
(*                                                                         *)
(* Text is modelled as a sequence of one-character strings, so that        *)
(* strip, html.escape, truncation and substring search are computed.       *)
(* A value decoded from a JSON body is tagged with its type:               *)
(*   [t |-> "str", v |-> chars]   [t |-> "list", v |-> <<values>>]         *)
(*   [t |-> "int", v |-> n]       [t |-> "null", v |-> 0]                  *)
(* An optional value (a dict key that may be absent) is <<>> or <<x>>.     *)
(* A value that is computed once and read several times is bound as        *)
(*   CHOOSE result \in {e(x) : x \in {value}} : TRUE                       *)
(* which is e(value).                                                      *)
(***************************************************************************)
EXTENDS Integers, Sequences, FiniteSets, TLC

VARIABLES
  env,        \* os.environ as read at import: ADMIN_USERNAME, ADMIN_PASSWORD, ETSY_API_KEY set or not
  USERS_DB,   \* the account map, username -> account
  session,    \* the session cookie of each browser session
  requests,   \* rate_limit's wrapper.requests: client address -> admitted timestamps kept
  now,        \* time.time()
  admitted,   \* history: every timestamp rate_limit admitted, per client (never pruned)
  handled,    \* what the market-data handler body returned to its decorators the last time
              \* it was called, and the inputs it ran on
  last,       \* the last HTTP request and the response the client received
  vterms,     \* validator harness: the input handed to validate_search_terms
  vres,       \* validator harness: its result
  vres2,      \* validator harness: the result of running it on its own output
  vpc,        \* validator harness: "start", "once", "twice"
  harg,       \* function harness: the arguments handed to the function under test
  hres        \* function harness: what it returned or raised

vars == <<env, USERS_DB, session, requests, now, admitted, handled, last,
          vterms, vres, vres2, vpc, harg, hres>>

appVars == <<env, USERS_DB, session, requests, now, admitted, handled, last>>
valVars == <<vterms, vres, vres2, vpc, harg, hres>>
funVars == <<harg, hres>>

-----------------------------------------------------------------------------
(* Bounds of the model *)

MaxTerms == 2       \* longest list of search terms drawn as validator input

-----------------------------------------------------------------------------
(* Text helpers *)

Max(a, b) == IF a >= b THEN a ELSE b
Min(a, b) == IF a <= b THEN a ELSE b

RECURSIVE Rep(_, _)
Rep(c, n) == IF n <= 0 THEN <<>> ELSE <<c>> \o Rep(c, n - 1)

\* the characters str.strip() removes
Whitespace == {" ", "\t", "\n", "\r"}

RECURSIVE lstrip(_)
lstrip(s) == IF s # <<>> /\ Head(s) \in Whitespace THEN lstrip(Tail(s)) ELSE s

RECURSIVE rstrip(_)
rstrip(s) ==
  IF s # <<>> /\ s[Len(s)] \in Whitespace THEN rstrip(SubSeq(s, 1, Len(s) - 1)) ELSE s

strip(s) == rstrip(lstrip(s))

Upper == {"A","B","C","D","E","F","G","H","I","J","K","L","M",
          "N","O","P","Q","R","S","T","U","V","W","X","Y","Z"}
LowerOf == [c \in Upper |->
  CASE c = "A" -> "a" [] c = "B" -> "b" [] c = "C" -> "c" [] c = "D" -> "d"
    [] c = "E" -> "e" [] c = "F" -> "f" [] c = "G" -> "g" [] c = "H" -> "h"
    [] c = "I" -> "i" [] c = "J" -> "j" [] c = "K" -> "k" [] c = "L" -> "l"
    [] c = "M" -> "m" [] c = "N" -> "n" [] c = "O" -> "o" [] c = "P" -> "p"
    [] c = "Q" -> "q" [] c = "R" -> "r" [] c = "S" -> "s" [] c = "T" -> "t"
    [] c = "U" -> "u" [] c = "V" -> "v" [] c = "W" -> "w" [] c = "X" -> "x"
    [] c = "Y" -> "y" [] c = "Z" -> "z"]
Lowercase == {LowerOf[c] : c \in Upper}
Digits == {"0","1","2","3","4","5","6","7","8","9"}

\* str.lower()
lower(s) == [i \in 1..Len(s) |-> IF s[i] \in Upper THEN LowerOf[s[i]] ELSE s[i]]

\* Python's `a in b` on two strings
Contains(a, b) ==
  \E i \in 0..(Len(b) - Len(a)) : SubSeq(b, i + 1, i + Len(a)) = a

\* html.escape(c) for one character (quote=True)
EscapeChar(c) ==
  CASE c = "&"  -> <<"&","a","m","p",";">>
    [] c = "<"  -> <<"&","l","t",";">>
    [] c = ">"  -> <<"&","g","t",";">>
    [] c = "\"" -> <<"&","q","u","o","t",";">>
    [] c = "'"  -> <<"&","#","x","2","7",";">>
    [] OTHER    -> <<c>>

\* html.escape(s): every character replaced in place, the text taken by halves
RECURSIVE html_escape(_)
html_escape(s) ==
  IF s = <<>> THEN <<>>
  ELSE IF Len(s) = 1 THEN EscapeChar(s[1])
  ELSE html_escape(SubSeq(s, 1, Len(s) \div 2))
         \o html_escape(SubSeq(s, Len(s) \div 2 + 1, Len(s)))

-----------------------------------------------------------------------------
(* JSON values *)

JStr(s)  == [t |-> "str",  v |-> s]
JList(l) == [t |-> "list", v |-> l]
JInt(n)  == [t |-> "int",  v |-> n]
JNull    == [t |-> "null", v |-> 0]

\* Python truthiness: `not x`
Falsy(x) ==
  \/ x.t = "null"
  \/ x.t \in {"str", "list"} /\ Len(x.v) = 0
  \/ x.t = "int" /\ x.v = 0

\* len(x) and `for e in x` are defined on strings and lists only
Sized(x) == x.t \in {"str", "list"}

\* the values a for loop over x yields: a list's elements, a string's characters
Items(x) == IF x.t = "str" THEN [i \in 1..Len(x.v) |-> JStr(<<x.v[i]>>)] ELSE x.v

-----------------------------------------------------------------------------
(* src/utils.py *)

SearchTermMaxLen == 100
SearchTermsCap == 20


sanitize_text_input(text, max_length) ==
  IF text = <<>> THEN <<>>
  ELSE LET sanitized == html_escape(strip(text))
       IN  IF Len(sanitized) > max_length THEN SubSeq(sanitized, 1, max_length)
           ELSE sanitized

\* the loop of validate_search_terms over the list's items
RECURSIVE clean_terms(_)
clean_terms(items) ==
  IF items = <<>> THEN <<>>
  ELSE LET term == Head(items)
           clean_term == IF term.t = "str"
                         THEN sanitize_text_input(term.v, SearchTermMaxLen) ELSE <<>>
       IN  (IF term.t = "str" /\ clean_term # <<>> /\ Len(clean_term) >= 2
            THEN <<clean_term>> ELSE <<>>) \o clean_terms(Tail(items))

\* a validator's return value (valid, message, clean); raised: it threw instead.
\* The message is kept without the count the code formats into it.
VRet(valid, message, clean) ==
  [raised |-> FALSE, valid |-> valid, message |-> message, clean |-> clean]
VRaise(exc) ==
  [raised |-> TRUE, valid |-> FALSE, message |-> exc, clean |-> <<>>]

validate_search_terms(terms) ==
  IF Falsy(terms) THEN VRet(TRUE, "No search terms provided", <<>>)
  ELSE IF ~Sized(terms) THEN VRaise("TypeError")
  ELSE IF Len(Items(terms)) > SearchTermsCap
       THEN VRet(FALSE, "Too many search terms (max 20)", <<>>)
  ELSE LET clean == clean_terms(Items(terms))
       IN  IF Len(clean) = 0 THEN VRet(FALSE, "No valid search terms found", <<>>)
           ELSE VRet(TRUE, "Validated search terms", clean)

-----------------------------------------------------------------------------
(* Validator harness: validate_search_terms applied to an input drawn from  *)
(* a bounded set, then to its own cleaned output.                           *)

Txt_ab       == <<"a","b">>
Txt_ab_pad   == <<" ","a","b"," ">>
Txt_amp      == <<"a","&","b">>
Txt_tag      == <<"<","b",">">>
Txt_quotes   == <<"x","'","y","\"">>
Txt_a        == <<"a">>
Txt_long100  == Rep("a", SearchTermMaxLen)
\* 101 characters whose 100th is a space: the slice leaves a trailing space
Txt_cutspace == Rep("a", SearchTermMaxLen - 1) \o <<" ","b">>
\* 100 characters ending in "&": the escaped text is cut inside "&amp;"
Txt_cutamp   == Rep("a", SearchTermMaxLen - 1) \o <<"&">>

TermPool ==
  { JStr(<<>>), JStr(Txt_a), JStr(Txt_ab), JStr(Txt_ab_pad), JStr(Txt_amp),
    JStr(Txt_tag), JStr(Txt_quotes), JStr(Txt_long100), JStr(Txt_cutspace),
    JStr(Txt_cutamp), JInt(7), JNull }

RECURSIVE ListsUpTo(_, _)
ListsUpTo(S, n) ==
  IF n = 0 THEN {<<>>}
  ELSE LET shorter == ListsUpTo(S, n - 1)
       IN  shorter \cup {Append(l, x) : l \in {m \in shorter : Len(m) = n - 1}, x \in S}

TermInputs ==
  {JList(l) : l \in ListsUpTo(TermPool, MaxTerms)}
    \cup {JList(Rep(JStr(Txt_ab), SearchTermsCap)), JList(Rep(JStr(Txt_ab), SearchTermsCap + 1))}
    \cup {JNull, JInt(0), JInt(5), JStr(Txt_ab), JStr(<<>>)}

NoResult == VRaise("not run")

\* a cleaned list handed back as a request value
AsJson(clean) == JList([i \in 1..Len(clean) |-> JStr(clean[i])])

Validate ==
  /\ vpc = "start"
  /\ vres' = validate_search_terms(vterms)
  /\ vpc' = "once"
  /\ UNCHANGED <<vterms, vres2>>
  /\ UNCHANGED funVars

Revalidate ==
  /\ vpc = "once"
  /\ ~vres.raised /\ vres.valid
  /\ vres2' = validate_search_terms(AsJson(vres.clean))
  /\ vpc' = "twice"
  /\ UNCHANGED <<vterms, vres>>
  /\ UNCHANGED funVars

-----------------------------------------------------------------------------
(* src/utils.py: the validators used by the account endpoints *)

UsernameChars == Upper \cup Lowercase \cup Digits \cup {"_", "-"}
ShopChars     == Upper \cup Lowercase \cup Digits \cup Whitespace \cup {"-", "_"}
Letters       == Upper \cup Lowercase

AllIn(s, S) == \A i \in 1..Len(s) : s[i] \in S

\* what `$` leaves to match: Python's `$` also matches before one trailing newline
BeforeDollar(s) ==
  IF s # <<>> /\ s[Len(s)] = "\n" THEN {s, SubSeq(s, 1, Len(s) - 1)} ELSE {s}

UsernameMinLen == 3
UsernameMaxLen == 50

validate_username(username) ==
  IF username = <<>> \/ Len(strip(username)) < UsernameMinLen
  THEN VRet(FALSE, "Username must be at least 3 characters", <<>>)
  ELSE IF Len(username) > UsernameMaxLen
  THEN VRet(FALSE, "Username must be less than 50 characters", <<>>)
  ELSE IF ~(\E b \in BeforeDollar(username) : b # <<>> /\ AllIn(b, UsernameChars))
  THEN VRet(FALSE, "Username can only contain letters, numbers, hyphens, and underscores", <<>>)
  ELSE VRet(TRUE, "Valid username", <<>>)

PasswordMinLen == 6
PasswordMaxLen == 128

\* password is whatever the JSON body held: len() of a number raises TypeError
validate_password(password) ==
  IF Falsy(password) THEN VRet(FALSE, "Password is required", <<>>)
  ELSE IF ~Sized(password) THEN VRaise("TypeError")
  ELSE IF Len(password.v) < PasswordMinLen
  THEN VRet(FALSE, "Password must be at least 6 characters", <<>>)
  ELSE IF Len(password.v) > PasswordMaxLen THEN VRet(FALSE, "Password is too long", <<>>)
  ELSE VRet(TRUE, "Valid password", <<>>)

EmailLocalChars  == Letters \cup Digits \cup {".", "_", "%", "+", "-"}
EmailDomainChars == Letters \cup Digits \cup {".", "-"}
EmailMaxLen == 254

\* ^[a-zA-Z0-9._%+-]+@[a-zA-Z0-9.-]+\.[a-zA-Z]{2,}$
EmailPattern(s) ==
  \E b \in BeforeDollar(s) :
    \E i \in 2..Len(b) : \E j \in (i + 2)..(Len(b) - 2) :
      /\ b[i] = "@" /\ b[j] = "."
      /\ AllIn(SubSeq(b, 1, i - 1), EmailLocalChars)
      /\ AllIn(SubSeq(b, i + 1, j - 1), EmailDomainChars)
      /\ AllIn(SubSeq(b, j + 1, Len(b)), Letters)

validate_email(email) ==
  IF email = <<>> THEN VRet(TRUE, "Email is optional", <<>>)
  ELSE IF ~EmailPattern(email) THEN VRet(FALSE, "Invalid email format", <<>>)
  ELSE IF Len(email) > EmailMaxLen THEN VRet(FALSE, "Email is too long", <<>>)
  ELSE VRet(TRUE, "Valid email", <<>>)

ShopNamesCap == 50
ShopNameMaxLen == 50

\* re.sub(r'[^a-zA-Z0-9\s\-_]', '', s)
RECURSIVE keep_shop_chars(_)
keep_shop_chars(s) ==
  IF s = <<>> THEN <<>>
  ELSE (IF Head(s) \in ShopChars THEN <<Head(s)>> ELSE <<>>) \o keep_shop_chars(Tail(s))

RECURSIVE clean_shops(_)
clean_shops(items) ==
  IF items = <<>> THEN <<>>
  ELSE LET shop == Head(items)
           clean_shop == IF shop.t = "str" THEN keep_shop_chars(strip(shop.v)) ELSE <<>>
       IN  (IF shop.t = "str" /\ clean_shop # <<>> /\ Len(clean_shop) >= 2
            THEN <<SubSeq(clean_shop, 1, Min(Len(clean_shop), ShopNameMaxLen))>> ELSE <<>>)
           \o clean_shops(Tail(items))

validate_shop_names(shops) ==
  IF Falsy(shops) THEN VRet(TRUE, "No shop names provided", <<>>)
  ELSE IF ~Sized(shops) THEN VRaise("TypeError")
  ELSE IF Len(Items(shops)) > ShopNamesCap
       THEN VRet(FALSE, "Too many shops in watchlist (max 50)", <<>>)
  ELSE VRet(TRUE, "Validated shop names", clean_shops(Items(shops)))

-----------------------------------------------------------------------------
(* src/app.py: configuration, the account map, sessions *)

Txt_admin    == <<"a","d","m","i","n">>
Txt_user     == <<"u","s","e","r">>
Txt_admin123 == <<"a","d","m","i","n","1","2","3">>
Txt_Administrator == <<"A","d","m","i","n","i","s","t","r","a","t","o","r">>
Txt_admin_email == <<"a","d","m","i","n","@","a","r","t","h","u","r","s","d","e","n",".","c","o","m">>

Term_nursery_wall_art_uk     == <<"n","u","r","s","e","r","y"," ","w","a","l","l"," ","a","r","t"," ","u","k">>
Term_personalised_baby_gifts == <<"p","e","r","s","o","n","a","l","i","s","e","d"," ","b","a","b","y"," ","g","i","f","t","s">>
Term_custom_name_sign_uk     == <<"c","u","s","t","o","m"," ","n","a","m","e"," ","s","i","g","n"," ","u","k">>
Term_wooden_name_plaque      == <<"w","o","o","d","e","n"," ","n","a","m","e"," ","p","l","a","q","u","e">>
Term_baby_room_decor_uk      == <<"b","a","b","y"," ","r","o","o","m"," ","d","e","c","o","r"," ","u","k">>

\* the search_terms every account starts with (the seeded admin, and create_user)
AccountSearchTerms ==
  << Term_nursery_wall_art_uk, Term_personalised_baby_gifts, Term_custom_name_sign_uk,
     Term_wooden_name_plaque, Term_baby_room_decor_uk >>

\* hashlib.sha256(password.encode()).hexdigest(), as an injective function of the
\* password: equal digests iff equal passwords (collisions are not modelled)
hash_password(password) == <<"sha256", password>>


verify_password(password, hash) ==
  IF password.t # "str" THEN [raised |-> TRUE, ok |-> FALSE]
  ELSE [raised |-> FALSE, ok |-> hash_password(password.v) = hash]

\* an account; the fields 'created' and 'settings' are never read by a handler
\* that the model covers and are left out
Account(password_hash, role, name, email) ==
  [ password_hash   |-> password_hash,
    role            |-> role,
    name            |-> name,
    email           |-> email,
    search_terms    |-> AccountSearchTerms,
    watchlist_shops |-> <<>> ]

SeededAdmin == Account(hash_password(Txt_admin123), Txt_admin, Txt_Administrator, Txt_admin_email)

\* USERS_DB as the module defines it
SeededUsers == [u \in {Txt_admin} |-> SeededAdmin]

\* the environment's defaults: ADMIN_USERNAME, ADMIN_PASSWORD, and no Etsy key
DefaultEnv ==
  [ADMIN_USERNAME |-> Txt_admin, ADMIN_PASSWORD |-> Txt_admin123, api_key_set |-> FALSE]

\* a session cookie: each key is absent (<<>>) or present (<<value>>)
EmptySession ==
  [ authenticated |-> <<>>, username |-> <<>>, user_role |-> <<>>, user_name |-> <<>>,
    search_terms |-> <<>>, watchlist_shops |-> <<>> ]

\* session.get('authenticated') as a condition
Authenticated(s) == session[s].authenticated = <<TRUE>>

\* session.get('user_role') != 'admin'
IsAdminSession(s) == session[s].user_role = <<Txt_admin>>

\* dict.get(key, default) on a decoded JSON object
Get(d, k, default) == IF k \in DOMAIN d THEN d[k] ELSE default

\* `not data` on the decoded body: None, {}, [], "", 0
FalsyBody(data) == IF data.t = "dict" THEN DOMAIN data.v = {} ELSE Falsy(data)

NoClient == "-"

\* the request just served: which endpoint, what the caller's session held when
\* the request arrived (user, authed, role), and the response sent; limited: the
\* rate limiter rejected it; matched: a login whose pair is a credential; target:
\* the account a delete-user request names
Served(endpoint, s, status, payload, msg) ==
  [ endpoint |-> endpoint, user |-> session[s].username, client |-> NoClient,
    authed   |-> Authenticated(s), role |-> session[s].user_role,
    status   |-> status, payload |-> payload, msg |-> msg,
    limited  |-> FALSE, matched |-> FALSE, target |-> <<>> ]

\* an uncaught exception: Flask answers with the 500 error handler
InternalError(endpoint, s) == Served(endpoint, s, 500, "error", "Internal server error")

NoRequest ==
  [ endpoint |-> "none", user |-> <<>>, client |-> NoClient, authed |-> FALSE, role |-> <<>>,
    status |-> 0, payload |-> "none", msg |-> "", limited |-> FALSE, matched |-> FALSE,
    target |-> <<>> ]

-----------------------------------------------------------------------------
(* src/app.py: login, logout and the account endpoints.                     *)
(* A request body is [ctype |-> "json" | "form", data |-> decoded value];   *)
(* a decoded JSON object is [t |-> "dict", v |-> key -> value].             *)

JDict(f) == [t |-> "dict", v |-> f]

\* the keys login writes when the account map matched
LoggedIn(username, account) ==
  [ authenticated   |-> <<TRUE>>,
    username        |-> <<username>>,
    user_role       |-> <<account.role>>,
    user_name       |-> <<account.name>>,
    search_terms    |-> <<account.search_terms>>,
    watchlist_shops |-> <<account.watchlist_shops>> ]

\* the keys login writes on the legacy fallback; the others keep their value
LoggedInLegacy(old, username) ==
  [old EXCEPT !.authenticated = <<TRUE>>,
              !.username      = <<username>>,
              !.user_role     = <<Txt_admin>>,
              !.user_name     = <<Txt_Administrator>>]

\* whether the pair is a credential: an account with that password, or the
\* legacy pair of the environment
IsCredential(username, password) ==
  \/ /\ username \in DOMAIN USERS_DB
     /\ password.t = "str"
     /\ hash_password(password.v) = USERS_DB[username].password_hash
  \/ /\ username \notin DOMAIN USERS_DB
     /\ username = env.ADMIN_USERNAME
     /\ password = JStr(env.ADMIN_PASSWORD)

\* POST /login
login(s, body) ==
  LET data == body.data
      u    == IF data.t = "dict" THEN Get(data.v, "username", JStr(<<>>)) ELSE JNull
      password == IF data.t = "dict" THEN Get(data.v, "password", JStr(<<>>)) ELSE JNull
      username == IF u.t = "str" THEN strip(u.v) ELSE <<>>
      ok   == Served("login", s, 200, "login_ok", "Login successful")
      deny == Served("login", s, 401, "error", "Invalid credentials")
      matched == data.t = "dict" /\ u.t = "str" /\ IsCredential(username, password)
  IN  /\ UNCHANGED <<env, USERS_DB, requests, now, admitted, handled>>
      /\ IF data.t # "dict" \/ u.t # "str"
         THEN \* data.get / .strip() raises AttributeError
              /\ session' = session
              /\ last' = InternalError("login", s)
         ELSE IF username \in DOMAIN USERS_DB
         THEN LET v == verify_password(password, USERS_DB[username].password_hash)
              IN  IF v.raised
                  THEN /\ session' = session
                       /\ last' = [InternalError("login", s) EXCEPT !.matched = matched]
                  ELSE IF v.ok
                  THEN /\ session' = [session EXCEPT ![s] = LoggedIn(username, USERS_DB[username])]
                       /\ last' = [ok EXCEPT !.matched = matched]
                  ELSE /\ session' = session
                       /\ last' = [deny EXCEPT !.matched = matched]
         ELSE IF username = env.ADMIN_USERNAME /\ password = JStr(env.ADMIN_PASSWORD)
         THEN /\ session' = [session EXCEPT ![s] = LoggedInLegacy(session[s], username)]
              /\ last' = [ok EXCEPT !.matched = matched]
         ELSE /\ session' = session
              /\ last' = [deny EXCEPT !.matched = matched]

\* GET /login
login_page(s) ==
  /\ last' = Served("login_page", s, 200, "page", "")
  /\ UNCHANGED <<env, USERS_DB, session, requests, now, admitted, handled>>

\* GET /logout
\* a logout that drops the authentication flag only
logout_partial(s) ==
  /\ session' = [session EXCEPT ![s].authenticated = <<>>]
  /\ last' = Served("logout", s, 302, "redirect", "/login")
  /\ UNCHANGED <<env, USERS_DB, requests, now, admitted, handled>>

logout(s) ==
  /\ session' = [session EXCEPT ![s] = EmptySession]
  /\ last' = Served("logout", s, 302, "redirect", "/login")
  /\ UNCHANGED <<env, USERS_DB, requests, now, admitted, handled>>


\* create_user without its test for an existing name
create_user_overwrite(db, username, password, name, email, role) ==
  IF password.t # "str" THEN [ok |-> FALSE, raised |-> TRUE, db |-> db]
  ELSE [ok |-> TRUE, raised |-> FALSE,
        db |-> [k \in DOMAIN db \cup {username} |->
                  IF k = username
                  THEN Account(hash_password(password.v), role, name, email)
                  ELSE db[k]]]

create_user(db, username, password, name, email, role) ==
  IF username \in DOMAIN db THEN [ok |-> FALSE, raised |-> FALSE, db |-> db]
  ELSE IF password.t # "str" THEN [ok |-> FALSE, raised |-> TRUE, db |-> db]
  ELSE [ok |-> TRUE, raised |-> FALSE,
        db |-> [k \in DOMAIN db \cup {username} |->
                  IF k = username
                  THEN Account(hash_password(password.v), role, name, email)
                  ELSE db[k]]]

CreateUsernameMaxLen == 50
CreateNameMaxLen == 100

\* the admin test of the admin-only routes, dropped: any session passes
AdminRequired_none(s) == FALSE

\* `not session.get('authenticated') or session.get('user_role') != 'admin'`
AdminRequired(s) == ~Authenticated(s) \/ ~IsAdminSession(s)

\* the body of api_create_user's try block: [status, msg, db]
create_user_request(s, data) ==
  LET Field(k, d) == Get(data.v, k, d)
      u == Field("username", JStr(<<>>))
      n == Field("name", JStr(<<>>))
      e == Field("email", JStr(<<>>))
      password == Field("password", JStr(<<>>))
      role == Field("role", JStr(Txt_user))
      Bad(msg) == [status |-> 400, msg |-> msg, db |-> USERS_DB]
      Caught == [status |-> 500, msg |-> "Failed to create user. Please try again.", db |-> USERS_DB]
  IN  IF FalsyBody(data) THEN Bad("Invalid JSON data")
      ELSE IF data.t # "dict" THEN Caught
      ELSE IF u.t # "str" \/ n.t # "str" \/ e.t # "str" THEN Caught
      ELSE
        LET username == sanitize_text_input(strip(u.v), CreateUsernameMaxLen)
            name     == sanitize_text_input(strip(n.v), CreateNameMaxLen)
            email    == sanitize_text_input(strip(e.v), EmailMaxLen)
            vu == validate_username(username)
            vp == validate_password(password)
            ve == validate_email(email)
        IN  IF role \notin {JStr(Txt_user), JStr(Txt_admin)}
            THEN Bad("Invalid role. Must be \"user\" or \"admin\"")
            ELSE IF ~vu.valid THEN Bad(vu.message)
            ELSE IF vp.raised THEN Caught
            ELSE IF ~vp.valid THEN Bad(vp.message)
            ELSE IF name = <<>> \/ Len(name) < 2 THEN Bad("Name must be at least 2 characters")
            ELSE IF email # <<>> /\ ~ve.valid THEN Bad(ve.message)
            ELSE LET c == create_user(USERS_DB, username, password, name, email, role.v)
                 IN  IF c.raised THEN Caught
                     ELSE IF c.ok
                     THEN [status |-> 200, msg |-> "User created successfully", db |-> c.db]
                     ELSE Bad("Username already exists")

\* POST /api/create-user
api_create_user(s, body) ==
  /\ UNCHANGED <<env, session, requests, now, admitted, handled>>
  /\ IF AdminRequired(s)
     THEN /\ USERS_DB' = USERS_DB
          /\ last' = Served("create-user", s, 403, "error", "Admin access required")
     ELSE LET r == create_user_request(s, body.data)
          IN  /\ USERS_DB' = r.db
              /\ last' = Served("create-user", s, r.status,
                                IF r.status = 200 THEN "ok" ELSE "error", r.msg)

\* the protected name test of api_delete_user, before .strip() was added
IsProtectedName_unstripped(raw, username) == raw = Txt_admin

\* `username == 'admin'`, on the stripped name
IsProtectedName(raw, username) == username = Txt_admin

\* POST /api/delete-user
api_delete_user(s, body) ==
  LET data == body.data
      u == IF data.t = "dict" THEN Get(data.v, "username", JStr(<<>>)) ELSE JNull
      username == IF u.t = "str" THEN strip(u.v) ELSE <<>>
      Reply(status, payload, msg) ==
        [Served("delete-user", s, status, payload, msg)
           EXCEPT !.target = IF u.t = "str" THEN <<username>> ELSE <<>>]
  IN  /\ UNCHANGED <<env, session, requests, now, admitted, handled>>
      /\ IF AdminRequired(s)
         THEN /\ USERS_DB' = USERS_DB
              /\ last' = Reply(403, "error", "Admin access required")
         ELSE IF data.t # "dict" \/ u.t # "str"
         THEN \* data.get / .strip() raises AttributeError outside any try
              /\ USERS_DB' = USERS_DB
              /\ last' = Reply(500, "error", "Internal server error")
         ELSE IF IsProtectedName(u.v, username)
         THEN /\ USERS_DB' = USERS_DB
              /\ last' = Reply(400, "error", "Cannot delete admin user")
         ELSE IF username \in DOMAIN USERS_DB
         THEN /\ USERS_DB' = [k \in DOMAIN USERS_DB \ {username} |-> USERS_DB[k]]
              /\ last' = Reply(200, "ok", "User deleted successfully")
         ELSE /\ USERS_DB' = USERS_DB
              /\ last' = Reply(404, "error", "User not found")

\* the profile is never saved: only the session takes the new list
OwnAccount_never(s) == FALSE

\* the session's username names an account: `username in USERS_DB`
OwnAccount(s) ==
  session[s].username # <<>> /\ session[s].username[1] \in DOMAIN USERS_DB

\* POST /api/update-search-terms
update_search_terms(s, body) ==
  LET data == body.data
      search_terms == IF data.t = "dict" THEN Get(data.v, "search_terms", JList(<<>>)) ELSE JNull
      v == validate_search_terms(search_terms)
      Reply(status, payload, msg) ==
        /\ USERS_DB' = USERS_DB /\ session' = session
        /\ last' = Served("update-search-terms", s, status, payload, msg)
  IN  /\ UNCHANGED <<env, requests, now, admitted, handled>>
      /\ IF ~Authenticated(s) THEN Reply(401, "error", "Authentication required")
         ELSE IF FalsyBody(data) THEN Reply(400, "error", "Invalid JSON data")
         ELSE IF data.t # "dict" \/ v.raised
         THEN Reply(500, "error", "Failed to update search terms. Please try again.")
         ELSE IF ~v.valid THEN Reply(400, "error", v.message)
         ELSE /\ session' = [session EXCEPT ![s].search_terms = <<v.clean>>]
              /\ USERS_DB' = IF OwnAccount(s)
                             THEN [USERS_DB EXCEPT ![session[s].username[1]].search_terms = v.clean]
                             ELSE USERS_DB
              /\ last' = Served("update-search-terms", s, 200, "settings", "Updated search terms")

\* POST /api/update-watchlist
update_watchlist(s, body) ==
  LET data == body.data
      shops == IF data.t = "dict" THEN Get(data.v, "shops", JList(<<>>)) ELSE JNull
      v == validate_shop_names(shops)
      Reply(status, payload, msg) ==
        /\ USERS_DB' = USERS_DB /\ session' = session
        /\ last' = Served("update-watchlist", s, status, payload, msg)
  IN  /\ UNCHANGED <<env, requests, now, admitted, handled>>
      /\ IF ~Authenticated(s) THEN Reply(401, "error", "Authentication required")
         ELSE IF FalsyBody(data) THEN Reply(400, "error", "Invalid JSON data")
         ELSE IF data.t # "dict" \/ v.raised
         THEN Reply(500, "error", "Failed to update watchlist. Please try again.")
         ELSE IF ~v.valid THEN Reply(400, "error", v.message)
         ELSE /\ session' = [session EXCEPT ![s].watchlist_shops = <<v.clean>>]
              /\ USERS_DB' = IF OwnAccount(s)
                             THEN [USERS_DB EXCEPT ![session[s].username[1]].watchlist_shops = v.clean]
                             ELSE USERS_DB
              /\ last' = Served("update-watchlist", s, 200, "settings", "Updated watchlist")

-----------------------------------------------------------------------------
(* src/app.py: the Listing Fetcher and the Metric Estimator.                *)
(* An outcome of the one HTTP call fetch_etsy_listings makes is             *)
(*   [kind |-> "timeout" | "connection_error" | "status" | "bad_json" |     *)
(*             "ok", code |-> HTTP status, data |-> decoded body]           *)
(* Numbers are integers: a price is kept in minor units (amount), and the   *)
(* priority score as 200 times its value, so that no division is rounded.   *)

NoData == [some |-> FALSE, data |-> JNull]
SomeData(d) == [some |-> TRUE, data |-> d]

FetchLimitMax == 100

\* safe_int(limit) then the clamp to 1..100, for the integer limits the handlers pass
safe_limit(limit) == Min(Max(limit, 1), FetchLimitMax)


fetch_etsy_listings(keywords, limit, outcome) ==
  IF keywords = <<>> THEN NoData
  ELSE IF ~env.api_key_set THEN NoData
  ELSE IF outcome.kind \in {"timeout", "connection_error"} THEN NoData
  ELSE IF outcome.kind = "bad_json" THEN NoData
  ELSE IF outcome.kind = "status" /\ outcome.code # 200 THEN NoData
  ELSE LET data == outcome.data
           results == IF data.t = "dict" THEN Get(data.v, "results", JList(<<>>)) ELSE JNull
       IN  \* len(data.get('results', [])) raises on a non-dict body or unsized results
           IF data.t # "dict" \/ ~Sized(results) THEN NoData
           ELSE SomeData(data)

Txt_UnknownShop == <<"U","n","k","n","o","w","n"," ","S","h","o","p">>
Txt_UnknownProduct == <<"U","n","k","n","o","w","n"," ","P","r","o","d","u","c","t">>
Txt_GBP == <<"G","B","P">>

EmptyDict == JDict([k \in {} |-> JNull])

\* whether reading the listing's fields raises inside the loop's try block
ListingRaises(listing) ==
  \/ listing.t # "dict"
  \/ LET f == listing.v
         price == Get(f, "price", EmptyDict)
         shop  == Get(f, "Shop", EmptyDict)
         user  == Get(f, "User", EmptyDict)
         images == Get(f, "Images", JList(<<>>))
         description == Get(f, "description", JStr(<<>>))
     IN  \/ price.t # "dict"
         \/ Get(price.v, "amount", JInt(0)).t # "int"
         \/ shop.t # "dict"
         \/ user.t # "dict"
         \/ images.t \notin {"list", "str"}
         \/ images.t = "str" /\ Len(images.v) > 0
         \/ \E i \in 1..Min(3, Len(images.v)) : images.v[i].t # "dict"
         \/ Get(shop.v, "country_name", JStr(<<>>)).t # "str"
         \/ Get(f, "views", JInt(0)).t # "int"
         \/ Get(f, "num_favorers", JInt(0)).t # "int"
         \/ Get(shop.v, "total_sales", JInt(0)).t \notin {"int", "null"}
         \/ ~Falsy(description) /\ description.t # "str"

CriticalAbove == 70
HighAbove == 40

\* the tiers with inclusive thresholds
Tier_inclusive(score200) ==
  IF score200 >= 200 * CriticalAbove THEN [priority |-> "Critical", trend |-> "Hot"]
  ELSE IF score200 >= 200 * HighAbove THEN [priority |-> "High", trend |-> "Trending"]
  ELSE [priority |-> "Medium", trend |-> "Stable"]

\* the tier of a priority score given as 200 times its value
Tier(score200) ==
  IF score200 > 200 * CriticalAbove THEN [priority |-> "Critical", trend |-> "Hot"]
  ELSE IF score200 > 200 * HighAbove THEN [priority |-> "High", trend |-> "Trending"]
  ELSE [priority |-> "Medium", trend |-> "Stable"]

\* the product built from a listing that raises nothing; it has no 'shop' key
Product(listing, i, search_term) ==
  LET f == listing.v
      shop == Get(f, "Shop", EmptyDict).v
      amount == Get(Get(f, "price", EmptyDict).v, "amount", JInt(0)).v
      views == Get(f, "views", JInt(0)).v
      favorites == Get(f, "num_favorers", JInt(0)).v
      total_sales == Get(shop, "total_sales", JInt(0)).v
      \* max(1, int(views * 0.02 + favorites * 0.1))
      estimated_weekly_sales == Max(1, (2 * views + 10 * favorites) \div 100)
      \* min(100, total_sales / 100), min(100, (views + favorites * 2) / 50), times 100
      shop_score100 == Min(10000, total_sales)
      engagement_score100 == Min(10000, 2 * (views + favorites * 2))
      score200 == shop_score100 + engagement_score100
  IN  [ id             |-> i,
        title          |-> Get(f, "title", JStr(Txt_UnknownProduct)),
        amount         |-> amount,
        currency       |-> Get(shop, "currency_code", JStr(Txt_GBP)),
        views          |-> views,
        favorites      |-> favorites,
        weekly_sales   |-> estimated_weekly_sales,
        \* int(estimated_weekly_sales * price * 4), price = amount / 100
        revenue        |-> (estimated_weekly_sales * amount * 4) \div 100,
        sales_trend    |-> Min(50, Max(5, views \div 100)),
        market_trend   |-> Tier(score200).trend,
        priority       |-> Tier(score200).priority,
        priority_score200 |-> score200,
        search_term    |-> search_term,
        seller_profile |-> [ shop_name   |-> Get(shop, "shop_name", JStr(Txt_UnknownShop)),
                             total_sales |-> Get(shop, "total_sales", JInt(0)) ] ]

ProcessTop == 10

\* the loop without its per-listing try: the first malformed listing ends the batch
RECURSIVE process_listings_abort(_, _, _)
process_listings_abort(listings, i, search_term) ==
  IF i > Len(listings) \/ ListingRaises(listings[i]) THEN <<>>
  ELSE <<Product(listings[i], i, search_term)>> \o process_listings_abort(listings, i + 1, search_term)

RECURSIVE process_listings(_, _, _)
process_listings(listings, i, search_term) ==
  IF i > Len(listings) THEN <<>>
  ELSE (IF ListingRaises(listings[i]) THEN <<>>
        ELSE <<Product(listings[i], i, search_term)>>)
       \o process_listings(listings, i + 1, search_term)

\* process_etsy_data: listings_data is a decoded body fetch returned (truthy)
process_etsy_data(listings_data, search_term) ==
  IF FalsyBody(listings_data) \/ "results" \notin DOMAIN listings_data.v THEN <<>>
  ELSE LET results == Items(listings_data.v["results"])
       IN  process_listings(SubSeq(results, 1, Min(ProcessTop, Len(results))), 1, search_term)

-----------------------------------------------------------------------------
(* src/app.py: the market-data handler body (the Aggregator) *)

Term_personalised_baby_gifts_uk  == <<"p","e","r","s","o","n","a","l","i","s","e","d"," ","b","a","b","y"," ","g","i","f","t","s"," ","u","k">>
Term_milestone_baby_blanket      == <<"m","i","l","e","s","t","o","n","e"," ","b","a","b","y"," ","b","l","a","n","k","e","t">>
Term_baby_shower_decorations_uk  == <<"b","a","b","y"," ","s","h","o","w","e","r"," ","d","e","c","o","r","a","t","i","o","n","s"," ","u","k">>
Term_childrens_bedroom_decor     == <<"c","h","i","l","d","r","e","n","'","s"," ","b","e","d","r","o","o","m"," ","d","e","c","o","r">>
Term_bespoke_baby_gifts          == <<"b","e","s","p","o","k","e"," ","b","a","b","y"," ","g","i","f","t","s">>

\* the search terms of a session that holds none
DefaultSearchTerms ==
  << Term_nursery_wall_art_uk, Term_personalised_baby_gifts_uk, Term_milestone_baby_blanket,
     Term_custom_name_sign_uk, Term_baby_shower_decorations_uk, Term_wooden_name_plaque,
     Term_childrens_bedroom_decor, Term_bespoke_baby_gifts >>

Shop_BabyMilestoneUK    == <<"B","a","b","y","M","i","l","e","s","t","o","n","e","U","K">>
Shop_WoodCraftStudioUK  == <<"W","o","o","d","C","r","a","f","t","S","t","u","d","i","o","U","K">>
Shop_PartyPerfectUK     == <<"P","a","r","t","y","P","e","r","f","e","c","t","U","K">>
Shop_ModernNurseryArtUK == <<"M","o","d","e","r","n","N","u","r","s","e","r","y","A","r","t","U","K">>
Shop_BespokeBabyGiftsUK == <<"B","e","s","p","o","k","e","B","a","b","y","G","i","f","t","s","U","K">>

Title_demo1 == <<"P","e","r","s","o","n","a","l","i","s","e","d"," ","B","a","b","y"," ","M","i","l","e","s","t","o","n","e"," ","B","l","a","n","k","e","t"," ","-"," ","M","o","n","t","h","l","y",".",".",".">>
Title_demo2 == <<"C","u","s","t","o","m"," ","N","u","r","s","e","r","y"," ","N","a","m","e"," ","S","i","g","n"," ","-"," ","W","o","o","d","e","n"," ","L","a","s","e","r"," ","C","u","t",".",".",".">>
Title_demo3 == <<"B","a","b","y"," ","S","h","o","w","e","r"," ","D","e","c","o","r","a","t","i","o","n","s"," ","S","e","t"," ","-"," ","G","e","n","d","e","r"," ","N","e","u","t","r","a","l",".",".",".">>
Title_demo4 == <<"N","u","r","s","e","r","y"," ","W","a","l","l"," ","A","r","t"," ","P","r","i","n","t"," ","S","e","t"," ","-"," ","S","a","f","a","r","i"," ","A","n","i","m","a","l","s",".",".",".">>
Title_demo5 == <<"B","e","s","p","o","k","e"," ","B","a","b","y"," ","G","i","f","t"," ","S","e","t"," ","-"," ","P","e","r","s","o","n","a","l","i","s","e","d"," ","B","u","n","d","l","e",".",".",".">>

DemoProduct(id, title, shop, amount, views, favorites, weekly_sales, revenue, sales_trend, market_trend, priority, search_term) ==
  [ id |-> id, title |-> JStr(title), shop |-> shop, amount |-> amount,
    currency |-> JStr(Txt_GBP), views |-> views, favorites |-> favorites,
    weekly_sales |-> weekly_sales, revenue |-> revenue, sales_trend |-> sales_trend,
    market_trend |-> market_trend, priority |-> priority, search_term |-> search_term,
    seller_profile |-> [shop_name |-> JStr(shop)] ]

\* the fixed demonstration products
DemoProducts ==
  << DemoProduct(1, Title_demo1, Shop_BabyMilestoneUK, 3499, 1850, 127, 23, 3218, 18,
                 "Hot", "Critical", Term_milestone_baby_blanket),
     DemoProduct(2, Title_demo2, Shop_WoodCraftStudioUK, 2950, 2140, 89, 31, 3658, 25,
                 "Trending", "High", Term_custom_name_sign_uk),
     DemoProduct(3, Title_demo3, Shop_PartyPerfectUK, 2299, 1230, 67, 19, 1747, 12,
                 "Stable", "Medium", Term_baby_shower_decorations_uk),
     DemoProduct(4, Title_demo4, Shop_ModernNurseryArtUK, 1299, 3450, 234, 45, 2338, 35,
                 "Hot", "Critical", Term_nursery_wall_art_uk),
     DemoProduct(5, Title_demo5, Shop_BespokeBabyGiftsUK, 5250, 890, 45, 12, 2520, 8,
                 "Emerging", "Medium", Term_bespoke_baby_gifts) >>

HasKey(product, key) == key \in DOMAIN product

\* any(shop.lower() in product['shop'].lower() for shop in watchlist_shops)
OnWatchlist(product, watchlist_shops) ==
  \E j \in 1..Len(watchlist_shops) :
    Contains(lower(watchlist_shops[j]), lower(product.shop))

\* the product with product['watchlist_match'] = True
Marked(product) == [k \in DOMAIN product \cup {"watchlist_match"} |->
                      IF k = "watchlist_match" THEN TRUE ELSE product[k]]

RECURSIVE kept_products(_, _)
kept_products(products, watchlist_shops) ==
  IF products = <<>> THEN <<>>
  ELSE (IF OnWatchlist(Head(products), watchlist_shops)
        THEN <<Marked(Head(products))>> ELSE <<>>)
       \o kept_products(Tail(products), watchlist_shops)

\* the watchlist filter over one term's products: product['shop'] raises KeyError
\* on a product that has no such key
filter_watchlist(products, watchlist_shops) ==
  IF watchlist_shops = <<>> THEN [raised |-> FALSE, products |-> products]
  ELSE IF \E i \in 1..Len(products) : ~HasKey(products[i], "shop")
  THEN [raised |-> TRUE, products |-> <<>>]
  ELSE [raised |-> FALSE, products |-> kept_products(products, watchlist_shops)]

RECURSIVE SumOf(_, _)
SumOf(products, key) ==
  IF products = <<>> THEN 0 ELSE Head(products)[key] + SumOf(Tail(products), key)

\* a count that takes High products for alerts as well
RECURSIVE CountCritical_high(_)
CountCritical_high(products) ==
  IF products = <<>> THEN 0
  ELSE (IF Head(products).priority \in {"Critical", "High"} THEN 1 ELSE 0)
       + CountCritical_high(Tail(products))

RECURSIVE CountCritical(_)
CountCritical(products) ==
  IF products = <<>> THEN 0
  ELSE (IF Head(products).priority = "Critical" THEN 1 ELSE 0) + CountCritical(Tail(products))

ListingsPerTerm == 5

\* one pass of the loop over the search terms: acc after the term's products are added
term_pass(term, watchlist_shops, outcome, acc) ==
  LET listings_data == fetch_etsy_listings(term, safe_limit(ListingsPerTerm), outcome)
  IN  IF ~listings_data.some \/ FalsyBody(listings_data.data) THEN acc
      ELSE CHOOSE result \in
             { IF filtered.raised THEN [acc EXCEPT !.raised = TRUE]
               ELSE [ raised             |-> FALSE,
                      all_products       |-> acc.all_products \o filtered.products,
                      total_revenue      |-> acc.total_revenue
                                               + SumOf(filtered.products, "revenue"),
                      total_weekly_sales |-> acc.total_weekly_sales
                                               + SumOf(filtered.products, "weekly_sales"),
                      critical_alerts    |-> acc.critical_alerts
                                               + CountCritical(filtered.products) ] :
               filtered \in {filter_watchlist(process_etsy_data(listings_data.data, term),
                                              watchlist_shops)} } : TRUE

\* the loop over the search terms; outcomes[i] is the outcome of the i-th fetch
RECURSIVE collect(_, _, _, _, _)
collect(search_terms, watchlist_shops, outcomes, i, acc) ==
  IF acc.raised \/ i > Len(search_terms) THEN acc
  ELSE CHOOSE result \in
         { collect(search_terms, watchlist_shops, outcomes, i + 1, next) :
           next \in {term_pass(search_terms[i], watchlist_shops, outcomes[i], acc)} } : TRUE

\* sorted(products, key=revenue, reverse=True): stable, equal revenues keep their order
RECURSIVE insert_desc(_, _)
insert_desc(sorted, p) ==
  IF sorted = <<>> THEN <<p>>
  ELSE IF Head(sorted).revenue >= p.revenue THEN <<Head(sorted)>> \o insert_desc(Tail(sorted), p)
  ELSE <<p>> \o sorted

RECURSIVE sorted_by_revenue(_)
sorted_by_revenue(products) ==
  IF products = <<>> THEN <<>>
  ELSE CHOOSE result \in
         { insert_desc(sorted, products[Len(products)]) :
           sorted \in {sorted_by_revenue(SubSeq(products, 1, Len(products) - 1))} } : TRUE

TopCount == 3

RECURSIVE insights(_)
insights(top_products) ==
  IF top_products = <<>> THEN [opportunities |-> <<>>, alerts |-> <<>>]
  ELSE LET product == Head(top_products)
       IN  CHOOSE result \in
             { IF product.priority # "Critical" THEN rest
               ELSE [ opportunities |->
                        <<[ niche |-> product.search_term, growth |-> product.sales_trend,
                            revenue |-> product.revenue, urgency |-> "Critical" ]>>
                        \o rest.opportunities,
                      alerts |->
                        <<[ title |-> product.title, search_term |-> product.search_term,
                            shop |-> product.shop, revenue |-> product.revenue ]>>
                        \o rest.alerts ] :
               rest \in {insights(Tail(top_products))} } : TRUE

\* what the handler body hands back: the 401 tuple, an exception, or the view
Returned(kind, exc) ==
  [ kind |-> kind, exc |-> exc, products |-> <<>>, total_revenue |-> 0,
    total_weekly_sales |-> 0, critical_alerts |-> 0, market_health |-> "",
    top_opportunity |-> <<>>, opportunities |-> <<>>, alerts |-> <<>> ]

\* whether every fetch of the loop returns None
AllFetchesFail(search_terms, outcomes) ==
  \A i \in 1..Len(search_terms) :
    ~fetch_etsy_listings(search_terms[i], safe_limit(ListingsPerTerm), outcomes[i]).some

NoStart == [ raised |-> FALSE, all_products |-> <<>>, total_revenue |-> 0,
             total_weekly_sales |-> 0, critical_alerts |-> 0 ]

\* the demo fallback dropped: an empty product list stays empty
with_demo_never(acc) == acc

\* the fallback when all_products is empty: the demo products and their totals
with_demo(acc) ==
  IF acc.all_products # <<>> THEN acc
  ELSE [ raised             |-> FALSE,
         all_products       |-> DemoProducts,
         total_revenue      |-> SumOf(DemoProducts, "revenue"),
         total_weekly_sales |-> SumOf(DemoProducts, "weekly_sales"),
         critical_alerts    |-> CountCritical(DemoProducts) ]

\* the summary built from the collected products and the three with most revenue
market_view(acc, top_products) ==
  \* the alert of a Critical top product reads product['shop']
  IF \E i \in 1..Len(top_products) :
       top_products[i].priority = "Critical" /\ ~HasKey(top_products[i], "shop")
  THEN Returned("raise", "KeyError")
  ELSE CHOOSE result \in
         { [ kind               |-> "view",
             exc                |-> "",
             products           |-> acc.all_products,
             total_revenue      |-> acc.total_revenue,
             total_weekly_sales |-> acc.total_weekly_sales,
             critical_alerts    |-> acc.critical_alerts,
             market_health      |-> IF acc.critical_alerts > 0 THEN "Excellent" ELSE "Good",
             top_opportunity    |-> IF top_products = <<>> THEN <<>>
                                    ELSE <<top_products[1].search_term>>,
             opportunities      |-> found.opportunities,
             alerts             |-> found.alerts ] :
           found \in {insights(top_products)} } : TRUE

\* sorted(all_products, key=revenue, reverse=True)[:3]
top_three(all_products) ==
  CHOOSE result \in
    { SubSeq(ranked, 1, Min(TopCount, Len(ranked))) :
      ranked \in {sorted_by_revenue(all_products)} } : TRUE

\* the summary and insights of the collected (or demo) products
ranked_view(acc) ==
  CHOOSE result \in
    { market_view(acc, top_products) : top_products \in {top_three(acc.all_products)} } : TRUE

\* the handler body after the authentication test (the spec's build_market_view)
build_market_view(search_terms, watchlist_shops, outcomes) ==
  CHOOSE result \in
    { IF looped.raised THEN Returned("raise", "KeyError")
      ELSE CHOOSE view \in {ranked_view(acc) : acc \in {with_demo(looped)}} : TRUE :
      looped \in {collect(search_terms, watchlist_shops, outcomes, 1, NoStart)} } : TRUE

\* session.get('search_terms', [...]) and session.get('watchlist_shops', [])
SessionSearchTerms(s) ==
  IF session[s].search_terms = <<>> THEN DefaultSearchTerms ELSE session[s].search_terms[1]
SessionWatchlist(s) ==
  IF session[s].watchlist_shops = <<>> THEN <<>> ELSE session[s].watchlist_shops[1]

\* the undecorated get_market_data
market_data_body(s, outcomes) ==
  IF ~Authenticated(s) THEN Returned("unauthorized", "")
  ELSE build_market_view(SessionSearchTerms(s), SessionWatchlist(s), outcomes)

-----------------------------------------------------------------------------
(* src/app.py: the decorators of the market-data handler, and the routes    *)
(* that go through them.                                                    *)
(* rate_limit(max_requests, window) is checked at a scaled-down instance:   *)
(* the route passes (20, 60); the decorator's code does not depend on the   *)
(* values. Time is counted in whole seconds and never runs backwards.       *)

max_requests == 1   \* admitted requests per window (the route passes 20)
window == 2         \* seconds a timestamp is kept (the route passes 60)
MaxTime == 4        \* the clock stops advancing here


still_counted(req_time, current_time) == current_time - req_time < window

RECURSIVE pruned(_, _)
pruned(times, current_time) ==
  IF times = <<>> THEN <<>>
  ELSE (IF still_counted(Head(times), current_time) THEN <<Head(times)>> ELSE <<>>)
       \o pruned(Tail(times), current_time)

\* the admission test with an off-by-one: one request too many gets through
over_limit_late(kept) == Len(kept) > max_requests

\* `len(wrapper.requests[client_id]) >= max_requests`
over_limit(kept) == Len(kept) >= max_requests

\* the module never imports or binds the name `db` that log_api_call uses
db_defined == FALSE

Raised(exc) == Returned("raise", exc)

\* log_api_call around the handler body: result is what f returned or raised.
\* db.log_api_call is reached on both paths; with db unbound it raises NameError,
\* on the success path inside the try, so the except path raises it again
log_api_call(result) == IF db_defined THEN result ELSE Raised("NameError")

\* a call of the decorated get_market_data by client c for session s:
\* what it returns or raises, and what the limiter keeps
decorated_get_market_data(s, c, outcomes) ==
  LET kept == pruned(requests[c], now)
  IN  IF over_limit(kept)
      THEN [ ret |-> Returned("limited", ""), requests |-> kept,
             admit |-> FALSE, handled |-> handled ]
      ELSE CHOOSE result \in {
           [ ret |-> log_api_call(body), requests |-> Append(kept, now),
             admit |-> TRUE,
             \* with the inputs the body ran on, for the record
             handled |-> [ returned   |-> body,
                           ran        |-> Authenticated(s),
                           watchlist  |-> SessionWatchlist(s),
                           all_failed |-> /\ Authenticated(s)
                                          /\ AllFetchesFail(SessionSearchTerms(s), outcomes) ] ]
           : body \in {market_data_body(s, outcomes)} } : TRUE

\* the limiter's and the handler's part of a request that calls the decorated handler
ThroughLimiter(c, call) ==
  /\ requests' = [requests EXCEPT ![c] = call.requests]
  /\ admitted' = IF call.admit THEN [admitted EXCEPT ![c] = Append(@, now)] ELSE admitted
  /\ handled' = call.handled

\* GET /api/market-data
get_market_data(s, c, outcomes) ==
  \E call \in {decorated_get_market_data(s, c, outcomes)} :
    LET ret == call.ret
        Reply(status, payload, msg) ==
          [Served("market-data", s, status, payload, msg)
             EXCEPT !.client = c, !.limited = ~call.admit]
    IN  /\ ThroughLimiter(c, call)
        /\ last' = CASE ret.kind = "limited"      -> Reply(429, "error", "Rate limit exceeded")
                     [] ret.kind = "unauthorized" -> Reply(401, "error", "Authentication required")
                     [] ret.kind = "raise"        -> Reply(500, "error", "Internal server error")
                     [] OTHER                     -> Reply(200, "market", "")
        /\ UNCHANGED <<env, USERS_DB, session, now>>

\* GET /api/export
export_data(s, c, outcomes) ==
  /\ UNCHANGED <<env, USERS_DB, session, now>>
  /\ IF ~Authenticated(s)
     THEN /\ last' = Served("export", s, 401, "error", "Authentication required")
          /\ UNCHANGED <<requests, admitted, handled>>
     ELSE \E call \in {decorated_get_market_data(s, c, outcomes)} :
            LET ret == call.ret
                Reply(status, payload, msg) ==
                  [Served("export", s, status, payload, msg)
                     EXCEPT !.client = c, !.limited = ~call.admit]
            IN  /\ ThroughLimiter(c, call)
                /\ last' =
                     \* a (response, status) tuple has no get_json; an exception
                     \* propagates; the CSV row reads product["shop"]
                     IF ret.kind # "view" THEN Reply(500, "error", "Internal server error")
                     ELSE IF \E i \in 1..Len(ret.products) : ~HasKey(ret.products[i], "shop")
                     THEN Reply(500, "error", "Internal server error")
                     ELSE Reply(200, "csv", "")

\* the passing of time
Tick ==
  /\ now < MaxTime
  /\ now' = now + 1
  /\ UNCHANGED <<env, USERS_DB, session, requests, admitted, handled, last>>

-----------------------------------------------------------------------------
(* src/app.py: the remaining routes; none writes the account map or a session *)

Page(endpoint, s, status, payload) ==
  /\ last' = Served(endpoint, s, status, payload, "")
  /\ UNCHANGED <<env, USERS_DB, session, requests, now, admitted, handled>>

\* the authentication test of a gated route, dropped: every session passes
LoginRequired_none(s) == FALSE

\* `not session.get('authenticated')`
LoginRequired(s) == ~Authenticated(s)

\* GET /
home(s) ==
  IF LoginRequired(s) THEN Page("home", s, 302, "redirect") ELSE Page("home", s, 200, "dashboard")

\* GET /settings
settings(s) ==
  IF LoginRequired(s) THEN Page("settings", s, 302, "redirect")
  ELSE Page("settings", s, 200, "settings")

\* GET /users
user_management(s) ==
  IF AdminRequired(s)
  THEN /\ last' = Served("users", s, 403, "error", "Admin access required")
       /\ UNCHANGED <<env, USERS_DB, session, requests, now, admitted, handled>>
  ELSE Page("users", s, 200, "users")

\* GET /api/product-details/<listing_id>
get_product_details(s) ==
  IF LoginRequired(s)
  THEN /\ last' = Served("product-details", s, 401, "error", "Authentication required")
       /\ UNCHANGED <<env, USERS_DB, session, requests, now, admitted, handled>>
  ELSE Page("product-details", s, 200, "product")

\* GET /api/debug-etsy
debug_etsy(s) ==
  IF LoginRequired(s)
  THEN /\ last' = Served("debug-etsy", s, 401, "error", "Authentication required")
       /\ UNCHANGED <<env, USERS_DB, session, requests, now, admitted, handled>>
  ELSE Page("debug-etsy", s, 200, "debug")

\* GET /api/system-stats; psutil_fails: reading the statistics raised
system_stats(s, psutil_fails) ==
  IF AdminRequired(s)
  THEN /\ last' = Served("system-stats", s, 403, "error", "Admin access required")
       /\ UNCHANGED <<env, USERS_DB, session, requests, now, admitted, handled>>
  ELSE IF psutil_fails
  THEN /\ last' = Served("system-stats", s, 500, "error", "Failed to get system stats")
       /\ UNCHANGED <<env, USERS_DB, session, requests, now, admitted, handled>>
  ELSE Page("system-stats", s, 200, "system")

\* GET /health
health(s) == Page("health", s, 200, "health")

-----------------------------------------------------------------------------
(* Requests drawn by the specifications *)

Sessions == {"s1", "s2"}
Clients  == {"10.0.0.1", "10.0.0.2"}

Txt_bob     == <<"b","o","b">>
Txt_eve     == <<"e","v","e">>
Txt_nobody  == <<"n","o","b","o","d","y">>
Txt_root    == <<"r","o","o","t">>
Txt_rootpw1 == <<"r","o","o","t","p","w","1">>
Txt_secret1 == <<"s","e","c","r","e","t","1">>
Txt_wrong99 == <<"w","r","o","n","g","9","9">>
Txt_Bob     == <<"B","o","b">>
Txt_admin_pad == <<" ","a","d","m","i","n"," ">>
Txt_WoodCraft == <<"W","o","o","d","C","r","a","f","t">>
Txt_superuser == <<"s","u","p","e","r","u","s","e","r">>

Json(f) == [ctype |-> "json", data |-> JDict(f)]
Form(f) == [ctype |-> "form", data |-> JDict(f)]
JsonNull == [ctype |-> "json", data |-> JNull]

\* an environment that names a legacy administrator outside the account map
LegacyEnv ==
  [ADMIN_USERNAME |-> Txt_root, ADMIN_PASSWORD |-> Txt_rootpw1, api_key_set |-> FALSE]

Credentials(u, p) == [username |-> u, password |-> p]

\* logins: the seeded administrator, right and wrong; a password that is a JSON
\* number; an account created later; an unknown name; surrounding blanks in a form
LoginBodies ==
  { Json(Credentials(JStr(Txt_admin), JStr(Txt_admin123))),
    Json(Credentials(JStr(Txt_admin), JStr(Txt_wrong99))),
    Json(Credentials(JStr(Txt_admin), JInt(123))),
    Json(Credentials(JStr(Txt_nobody), JInt(123))),
    Json(Credentials(JStr(Txt_bob), JStr(Txt_secret1))),
    Json(Credentials(JStr(Txt_root), JStr(Txt_rootpw1))),
    Form(Credentials(JStr(Txt_admin_pad), JStr(Txt_admin123))) }

NewUser(u, p, role) ==
  Json([username |-> u, password |-> p, name |-> JStr(Txt_Bob), role |-> role])

CreateBodies ==
  { NewUser(JStr(Txt_bob), JStr(Txt_secret1), JStr(Txt_user)),
    NewUser(JStr(Txt_eve), JStr(Txt_secret1), JStr(Txt_admin)),
    NewUser(JStr(Txt_admin), JStr(Txt_secret1), JStr(Txt_user)),
    NewUser(JStr(Txt_admin_pad), JStr(Txt_secret1), JStr(Txt_user)),
    NewUser(JStr(Txt_eve), JStr(Txt_secret1), JStr(Txt_superuser)),
    JsonNull }

\* deletions by name; a body that is null, one without a username, one whose
\* username is a number
DeleteBodies ==
  { Json([username |-> JStr(u)]) : u \in {Txt_admin, Txt_admin_pad, Txt_bob} }
    \cup { JsonNull, Json([name |-> JStr(Txt_Bob)]), Json([username |-> JInt(5)]) }

SearchTermBodies ==
  { Json([search_terms |-> JList(<<JStr(Txt_ab_pad)>>)]), Json([search_terms |-> JInt(5)]) }

-----------------------------------------------------------------------------
(* Specifications *)

MaxUsers == 2       \* most accounts USERS_DB holds at once

\* the state after the module is imported
InitApp ==
  /\ USERS_DB = SeededUsers
  /\ session = [s \in Sessions |-> EmptySession]
  /\ requests = [c \in Clients |-> <<>>]
  /\ admitted = [c \in Clients |-> <<>>]
  /\ now = 0
  /\ handled = [returned |-> Returned("none", ""), ran |-> FALSE,
                watchlist |-> <<>>, all_failed |-> FALSE]
  /\ last = NoRequest

InitIdleFunction == harg = JNull /\ hres = JNull

InitIdleValidator ==
  /\ vterms = JNull /\ vres = NoResult /\ vres2 = NoResult /\ vpc = "idle"
  /\ InitIdleFunction

\* Spec: login, logout and the POST endpoints that write the account map
Init == InitApp /\ InitIdleValidator /\ env \in {DefaultEnv, LegacyEnv}

Next ==
  \/ \E s \in Sessions, b \in LoginBodies : login(s, b) /\ UNCHANGED valVars
  \/ \E s \in Sessions : logout(s) /\ UNCHANGED valVars
  \/ \E s \in Sessions, b \in CreateBodies :
       /\ api_create_user(s, b)
       /\ Cardinality(DOMAIN USERS_DB') <= MaxUsers
       /\ UNCHANGED valVars
  \/ \E s \in Sessions, b \in DeleteBodies : api_delete_user(s, b) /\ UNCHANGED valVars
  \/ \E s \in Sessions, b \in SearchTermBodies : update_search_terms(s, b) /\ UNCHANGED valVars

Spec == Init /\ [][Next]_vars

NoResponse(kind) == [kind |-> kind, code |-> 0, data |-> JNull]

\* every fetch of a request times out
AllTimeout(s) == [i \in 1..Len(SessionSearchTerms(s)) |-> NoResponse("timeout")]

\* SpecGate: every route, called by a session that has logged in and by one that has not
GateLogin  == Json(Credentials(JStr(Txt_admin), JStr(Txt_admin123)))
GateCreate == NewUser(JStr(Txt_bob), JStr(Txt_secret1), JStr(Txt_user))
GateDelete == Json([username |-> JStr(Txt_bob)])
GateTerms  == Json([search_terms |-> JList(<<JStr(Txt_ab_pad)>>)])
GateShops  == Json([shops |-> JList(<<JStr(Txt_WoodCraft)>>)])
GateClient == "10.0.0.1"

InitGate == InitApp /\ InitIdleValidator /\ env = DefaultEnv

NextGate ==
  \/ \E s \in Sessions : login(s, GateLogin) /\ UNCHANGED valVars
  \/ \E s \in Sessions : login_page(s) /\ UNCHANGED valVars
  \/ \E s \in Sessions : logout(s) /\ UNCHANGED valVars
  \/ \E s \in Sessions : api_create_user(s, GateCreate) /\ UNCHANGED valVars
  \/ \E s \in Sessions : api_delete_user(s, GateDelete) /\ UNCHANGED valVars
  \/ \E s \in Sessions : update_search_terms(s, GateTerms) /\ UNCHANGED valVars
  \/ \E s \in Sessions : update_watchlist(s, GateShops) /\ UNCHANGED valVars
  \/ \E s \in Sessions : get_market_data(s, GateClient, AllTimeout(s)) /\ UNCHANGED valVars
  \/ \E s \in Sessions : export_data(s, GateClient, AllTimeout(s)) /\ UNCHANGED valVars
  \/ \E s \in Sessions : home(s) /\ UNCHANGED valVars
  \/ \E s \in Sessions : settings(s) /\ UNCHANGED valVars
  \/ \E s \in Sessions : user_management(s) /\ UNCHANGED valVars
  \/ \E s \in Sessions : get_product_details(s) /\ UNCHANGED valVars
  \/ \E s \in Sessions : debug_etsy(s) /\ UNCHANGED valVars
  \/ \E s \in Sessions, f \in BOOLEAN : system_stats(s, f) /\ UNCHANGED valVars
  \/ \E s \in Sessions : health(s) /\ UNCHANGED valVars

SpecGate == InitGate /\ [][NextGate]_vars

\* SpecRate: the clock and the rate-limited market-data route, called by two clients
RateSession == "s1"

InitRate == InitApp /\ InitIdleValidator /\ env = DefaultEnv

NextRate ==
  \/ Tick /\ UNCHANGED valVars
  \/ login(RateSession, GateLogin) /\ UNCHANGED valVars
  \/ \E c \in Clients :
       get_market_data(RateSession, c, AllTimeout(RateSession)) /\ UNCHANGED valVars

SpecRate == InitRate /\ [][NextRate]_vars

\* SpecView: the market view with an API key configured, over the outcomes of the
\* fetches and the settings a session can hold
KeyedEnv == [DefaultEnv EXCEPT !.api_key_set = TRUE]

Money(amount) == JDict([amount |-> JInt(amount), divisor |-> JInt(100)])
ShopOf(name, total_sales) ==
  JDict([shop_name |-> JStr(name), total_sales |-> JInt(total_sales)])
Listing(title, amount, views, favorers, shop) ==
  JDict([ listing_id |-> JInt(1), title |-> JStr(title), price |-> Money(amount),
          views |-> JInt(views), num_favorers |-> JInt(favorers), Shop |-> shop ])

L_hot   == Listing(Title_demo1, 2999, 5000, 300, ShopOf(Shop_WoodCraftStudioUK, 9000))
L_party == Listing(Title_demo2, 1500, 100, 10, ShopOf(Shop_PartyPerfectUK, 200))
\* a Critical listing that earns less than L_party
L_cheap == Listing(Title_demo5, 10, 5000, 300, ShopOf(Shop_BespokeBabyGiftsUK, 9000))
L_bare  == JDict([listing_id |-> JInt(2)])
L_text  == JDict([listing_id |-> JInt(3), views |-> JStr(Txt_ab)])

Ok(data) == [kind |-> "ok", code |-> 200, data |-> data]
Results(listings) == JDict([count |-> JInt(Len(listings)), results |-> JList(listings)])

\* the outcomes a fetch is given, in a fixed order
FetchOutcomes ==
  << NoResponse("timeout"), NoResponse("connection_error"), NoResponse("bad_json"),
     [kind |-> "status", code |-> 429, data |-> JNull],
     Ok(Results(<<>>)),
     Ok(JDict([count |-> JInt(0)])),
     Ok(Results(<<L_party>>)),
     Ok(Results(<<L_hot, L_party>>)),
     Ok(Results(<<L_bare, L_text>>)),
     Ok(Results(<<L_cheap, L_party>>)) >>

\* what the fetches of the other search terms end in: a timeout, or one listing
OtherOutcomes == {1, 7}

\* the first search term's fetch ends in FetchOutcomes[a], all the others' in FetchOutcomes[b]
OutcomesOf(s, a, b) ==
  [i \in 1..Len(SessionSearchTerms(s)) |-> FetchOutcomes[IF i = 1 THEN a ELSE b]]

ViewSession == "s1"
ViewClient  == "10.0.0.1"

ViewTermBodies ==
  { Json([search_terms |-> JList(<<JStr(Txt_ab_pad)>>)]),
    Json([search_terms |-> JList(<<JStr(Txt_amp), JStr(Txt_ab)>>)]) }

ViewShopBodies ==
  { Json([shops |-> JList(<<JStr(Txt_WoodCraft)>>)]),
    Json([shops |-> JList(<<>>)]) }

InitView == InitApp /\ InitIdleValidator /\ env = KeyedEnv

NextView ==
  \/ login(ViewSession, GateLogin) /\ UNCHANGED valVars
  \/ \E b \in ViewTermBodies : update_search_terms(ViewSession, b) /\ UNCHANGED valVars
  \/ \E b \in ViewShopBodies : update_watchlist(ViewSession, b) /\ UNCHANGED valVars
  \/ \E a \in DOMAIN FetchOutcomes, b \in OtherOutcomes :
       /\ get_market_data(ViewSession, ViewClient, OutcomesOf(ViewSession, a, b))
       /\ UNCHANGED valVars

SpecView == InitView /\ [][NextView]_vars

\* SpecValidate: validate_search_terms on an input, then on its own output
InitValidate ==
  /\ InitApp /\ env = DefaultEnv
  /\ vterms \in TermInputs
  /\ vres = NoResult
  /\ vres2 = NoResult
  /\ vpc = "start"
  /\ InitIdleFunction

NextValidate ==
  \/ Validate /\ UNCHANGED appVars
  \/ Revalidate /\ UNCHANGED appVars

SpecValidate == InitValidate /\ [][NextValidate]_vars

-----------------------------------------------------------------------------
(* src/utils.py safe_int and the Listing Fetcher called with arbitrary      *)
(* arguments.  float() of a text is modelled on signed decimal numerals     *)
(* with an optional fraction and on the texts inf, infinity and nan;        *)
(* exponents and underscores are not among the arguments drawn.             *)

DigitValue == [c \in Digits |-> CHOOSE n \in 0..9 : ToString(n) = c]

RECURSIVE IntOf(_)
IntOf(ds) == IF ds = <<>> THEN 0 ELSE 10 * IntOf(SubSeq(ds, 1, Len(ds) - 1)) + DigitValue[ds[Len(ds)]]

Txt_inf      == <<"i","n","f">>
Txt_infinity == <<"i","n","f","i","n","i","t","y">>
Txt_nan      == <<"n","a","n">>

FloatError == [kind |-> "error", n |-> 0]
FloatInf   == [kind |-> "inf", n |-> 0]
FloatNan   == [kind |-> "nan", n |-> 0]
FloatNum(n) == [kind |-> "num", n |-> n]

\* float(text), with the finite values kept as their integer part
float_of_text(text) ==
  LET s == lower(strip(text))
      signed == s # <<>> /\ s[1] \in {"+", "-"}
      body == IF signed THEN Tail(s) ELSE s
      sign == IF signed /\ s[1] = "-" THEN -1 ELSE 1
      dots == {i \in 1..Len(body) : body[i] = "."}
      point == IF dots = {} THEN Len(body) + 1 ELSE CHOOSE i \in dots : \A j \in dots : i <= j
      whole == SubSeq(body, 1, point - 1)
      frac == SubSeq(body, point + 1, Len(body))
  IN  IF body \in {Txt_inf, Txt_infinity} THEN FloatInf
      ELSE IF body = Txt_nan THEN FloatNan
      ELSE IF /\ Cardinality(dots) <= 1
              /\ Len(whole) + Len(frac) > 0
              /\ \A i \in 1..Len(whole) : whole[i] \in Digits
              /\ \A i \in 1..Len(frac) : frac[i] \in Digits
           THEN FloatNum(sign * IntOf(whole))
      ELSE FloatError

\* float(value): TypeError for None and lists, ValueError for a text that is no number
float_of(value) ==
  IF value.t = "int" THEN FloatNum(value.v)
  ELSE IF value.t = "str" THEN float_of_text(value.v)
  ELSE FloatError

\* safe_int catches ValueError and TypeError only: int(nan) is a ValueError,
\* int(inf) an OverflowError, which leaves the function
safe_int(value, default) ==
  LET f == float_of(value)
  IN  IF f.kind = "num" THEN [raised |-> FALSE, value |-> f.n]
      ELSE IF f.kind = "inf" THEN [raised |-> TRUE, value |-> 0]
      ELSE [raised |-> FALSE, value |-> default]

FetchLimitDefault == 20

FetchRaised == [raised |-> TRUE, ret |-> NoData, requests |-> 0]
FetchReturned(ret, n) == [raised |-> FALSE, ret |-> ret, requests |-> n]

\* fetch_etsy_listings(keywords, limit) for arguments of any type; requests counts
\* the calls of requests.get
fetch_etsy_listings_call(keywords, limit, outcome) ==
  IF Falsy(keywords) \/ keywords.t # "str" THEN FetchReturned(NoData, 0)
  ELSE LET n == safe_int(limit, FetchLimitDefault)
       IN  IF n.raised THEN FetchRaised
           ELSE FetchReturned(fetch_etsy_listings(sanitize_text_input(keywords.v, 200), safe_limit(n.value), outcome),
                              IF env.api_key_set THEN 1 ELSE 0)

Txt_50   == <<"5","0">>
Txt_7_9  == <<" ","7",".","9"," ">>
Txt_m3   == <<"-","3">>

KeywordArgs ==
  << JStr(Term_nursery_wall_art_uk), JStr(<<>>), JNull, JInt(5), JList(<<JStr(Txt_ab)>>) >>

LimitArgs ==
  << JInt(20), JInt(0), JInt(500), JStr(Txt_50), JStr(Txt_7_9), JStr(Txt_m3), JStr(Txt_ab),
     JStr(Txt_nan), JStr(Txt_inf), JNull, JList(<<>>) >>

InitFetch ==
  /\ InitApp
  /\ env \in {DefaultEnv, KeyedEnv}
  /\ vterms = JNull /\ vres = NoResult /\ vres2 = NoResult
  /\ vpc = "fetch"
  /\ harg \in [keywords : 1..Len(KeywordArgs), limit : 1..Len(LimitArgs), outcome : 1..Len(FetchOutcomes)]
  /\ hres = JNull

Fetch ==
  /\ vpc = "fetch"
  /\ hres' = fetch_etsy_listings_call(KeywordArgs[harg.keywords], LimitArgs[harg.limit], FetchOutcomes[harg.outcome])
  /\ vpc' = "fetched"
  /\ UNCHANGED <<vterms, vres, vres2, harg>>
  /\ UNCHANGED appVars

NextFetch == Fetch

SpecFetch == InitFetch /\ [][NextFetch]_vars

-----------------------------------------------------------------------------
(* The Metric Estimator over batches of listings, well-formed and not, for  *)
(* two search terms of one pass of the handler's loop.                      *)

MaxListings == 2

L_70    == Listing(Title_demo3, 1000, 5000, 0, ShopOf(Shop_PartyPerfectUK, 4000))
L_71    == Listing(Title_demo3, 1000, 5000, 0, ShopOf(Shop_PartyPerfectUK, 4001))
L_40    == Listing(Title_demo4, 1000, 4000, 0, ShopOf(Shop_PartyPerfectUK, 0))
L_41    == Listing(Title_demo4, 1000, 4001, 0, ShopOf(Shop_PartyPerfectUK, 0))
L_price == JDict([listing_id |-> JInt(4), price |-> JStr(Txt_ab)])

ListingPool == << L_party, L_hot, L_bare, L_text, JStr(Txt_ab), L_70, L_71, L_40, L_41, L_price >>

\* twelve listings, the first and the last two malformed: only ten are processed
LongBatch == <<4, 1, 1, 5, 1, 1, 1, 1, 1, 2, 4, 1>>

Batch(indexes) == [i \in 1..Len(indexes) |-> ListingPool[indexes[i]]]

InitEstimate ==
  /\ InitApp
  /\ env = KeyedEnv
  /\ vterms = JNull /\ vres = NoResult /\ vres2 = NoResult
  /\ vpc = "estimate"
  /\ harg \in [first : ListsUpTo(1..Len(ListingPool), MaxListings) \cup {LongBatch},
               second : ListsUpTo(1..Len(ListingPool), 1)]
  /\ hres = JNull

\* process_etsy_data on the first batch, and the handler's loop over both terms
Estimate ==
  /\ vpc = "estimate"
  /\ \E products \in {process_etsy_data(Results(Batch(harg.first)), Term_nursery_wall_art_uk)},
        looped \in {collect(<<Term_nursery_wall_art_uk, Term_wooden_name_plaque>>, <<>>,
                            <<Ok(Results(Batch(harg.first))), Ok(Results(Batch(harg.second)))>>,
                            1, NoStart)} :
       hres' = [products |-> products, all_products |-> looped.all_products]
  /\ vpc' = "estimated"
  /\ UNCHANGED <<vterms, vres, vres2, harg>>
  /\ UNCHANGED appVars

NextEstimate == Estimate

SpecEstimate == InitEstimate /\ [][NextEstimate]_vars

-----------------------------------------------------------------------------
(* The two settings endpoints, called by an administrator's session and by  *)
(* the session of an account that is created and deleted meanwhile.         *)

AdminSession == "s1"
UserSession  == "s2"

\* a valid list, a list with no valid entry, a value that is no list
UpdateTermBodies ==
  { Json([search_terms |-> JList(<<JStr(Txt_ab_pad), JStr(Txt_a)>>)]),
    Json([search_terms |-> JList(<<JStr(Txt_a)>>)]),
    Json([search_terms |-> JInt(5)]) }

\* a valid list, a list of more than 50 names, a value that is no list
UpdateShopBodies ==
  { Json([shops |-> JList(<<JStr(Txt_WoodCraft), JInt(5)>>)]),
    Json([shops |-> JList(Rep(JStr(Txt_WoodCraft), ShopNamesCap + 1))]),
    Json([shops |-> JInt(5)]) }

InitUpdate == InitApp /\ InitIdleValidator /\ env = DefaultEnv

NextUpdate ==
  \/ login(AdminSession, GateLogin) /\ UNCHANGED valVars
  \/ login(UserSession, Json(Credentials(JStr(Txt_bob), JStr(Txt_secret1)))) /\ UNCHANGED valVars
  \/ api_create_user(AdminSession, GateCreate) /\ UNCHANGED valVars
  \/ api_delete_user(AdminSession, GateDelete) /\ UNCHANGED valVars
  \/ \E s \in Sessions, b \in UpdateTermBodies : update_search_terms(s, b) /\ UNCHANGED valVars
  \/ \E s \in Sessions, b \in UpdateShopBodies : update_watchlist(s, b) /\ UNCHANGED valVars

SpecUpdate == InitUpdate /\ [][NextUpdate]_vars

-----------------------------------------------------------------------------
(* One browser session that logs in, rightly and wrongly, logs out, and     *)
(* calls gated endpoints in between.                                        *)

LogoutSession == "s1"

LogoutLogins ==
  { GateLogin,
    Json(Credentials(JStr(Txt_admin), JStr(Txt_wrong99))),
    Json(Credentials(JStr(Txt_bob), JStr(Txt_secret1))),
    Json(Credentials(JStr(Txt_nobody), JStr(Txt_secret1))) }

InitLogout == InitApp /\ InitIdleValidator /\ env = DefaultEnv

NextLogout ==
  \/ \E b \in LogoutLogins : login(LogoutSession, b) /\ UNCHANGED valVars
  \/ logout(LogoutSession) /\ UNCHANGED valVars
  \/ api_create_user(LogoutSession, GateCreate) /\ UNCHANGED valVars
  \/ api_delete_user(LogoutSession, GateDelete) /\ UNCHANGED valVars
  \/ update_search_terms(LogoutSession, GateTerms) /\ UNCHANGED valVars
  \/ update_watchlist(LogoutSession, GateShops) /\ UNCHANGED valVars
  \/ home(LogoutSession) /\ UNCHANGED valVars
  \/ settings(LogoutSession) /\ UNCHANGED valVars
  \/ user_management(LogoutSession) /\ UNCHANGED valVars

SpecLogout == InitLogout /\ [][NextLogout]_vars

-----------------------------------------------------------------------------
(* Claims *)

OpenEndpoints == {"login", "login_page", "health"}

\* C2: a request to an endpoint other than login and health whose session is not
\* authenticated never receives a success response (so none carrying market,
\* product, user or system data), and never changes USERS_DB.
C2_GatedBySession ==
  [][ last'.endpoint \notin OpenEndpoints /\ ~last'.authed
        => /\ last'.status \notin 200..299
           /\ last'.payload \in {"error", "redirect"}
           /\ USERS_DB' = USERS_DB ]_vars

\* a session that has not logged in asks to create an account while another
\* session is logged in and the map holds a second account
C2_Witness ==
  /\ last.endpoint = "create-user"
  /\ ~last.authed
  /\ last.status = 403
  /\ \E s \in Sessions : Authenticated(s)
  /\ Cardinality(DOMAIN USERS_DB) = 2

\* C3: a POST /login whose username/password pair matches no credential fails
\* with HTTP 401 and the generic message, the same for an unknown username as for
\* a known username with a wrong password.
C3_FailedLoginIs401 ==
  last.endpoint = "login" /\ ~last.matched
    => last.status = 401 /\ last.msg = "Invalid credentials"

\* C4: a create-user or delete-user request from a session whose role is not
\* 'admin' is answered with HTTP 403 and leaves USERS_DB unchanged; the set of
\* accounts changes only through requests made by a session whose role is 'admin'.
C4_AdminOnlyAccounts ==
  [][ /\ last'.endpoint \in {"create-user", "delete-user"} /\ last'.role # <<Txt_admin>>
           => last'.status = 403 /\ USERS_DB' = USERS_DB
      /\ DOMAIN USERS_DB' # DOMAIN USERS_DB
           => /\ last'.role = <<Txt_admin>>
              /\ last'.endpoint \in {"create-user", "delete-user"} ]_vars

\* a logged-in account of role 'user' asked to create an account
C4_Witness ==
  /\ last.endpoint = "create-user"
  /\ last.authed
  /\ last.role = <<Txt_user>>
  /\ last.status = 403

\* the requests of client c admitted within the `window` seconds that end at instant t
AdmittedWithin(c, t) ==
  {i \in DOMAIN admitted[c] : admitted[c][i] <= t /\ t - admitted[c][i] < window}

IsSuffix(short, long) ==
  /\ Len(short) <= Len(long)
  /\ short = SubSeq(long, Len(long) - Len(short) + 1, Len(long))

C6_RejectedGets429 ==
  last.limited => last.status = 429

\* C7: given a fetch failure for every search term, the market-data handler
\* returns a non-empty product list, the fixed demo set, and a summary with
\* critical_alerts >= 1.
C7_DemoOnTotalFailure ==
  handled.ran /\ handled.all_failed
    => /\ handled.returned.kind = "view"
       /\ handled.returned.products # <<>>
       /\ handled.returned.products = DemoProducts
       /\ handled.returned.critical_alerts >= 1

\* with an API key configured and a watchlist set, every fetch failed
C7_Witness ==
  /\ env.api_key_set
  /\ handled.ran /\ handled.all_failed
  /\ handled.watchlist # <<>>
  /\ handled.returned.products = DemoProducts
  /\ handled.returned.critical_alerts = 2

\* C8: an authenticated, admitted GET /api/market-data request completes with the
\* market view whatever the outcomes of the external API calls.
C8_AdmittedGetsView ==
  last.endpoint = "market-data" /\ last.authed /\ ~last.limited
    => last.status = 200 /\ last.payload = "market"

\* C9: when the session's watchlist is non-empty, the market view returns a product
\* list that contains only products whose shop name contains some watchlist entry
\* as a case-insensitive substring, each marked as a watchlist match.
C9_OnlyWatchlistProducts ==
  handled.ran /\ handled.watchlist # <<>>
    => /\ handled.returned.kind = "view"
       /\ \A i \in 1..Len(handled.returned.products) :
            LET product == handled.returned.products[i]
            IN  /\ HasKey(product, "shop")
                /\ OnWatchlist(product, handled.watchlist)
                /\ HasKey(product, "watchlist_match")
                /\ product.watchlist_match

\* C10: validate_search_terms is idempotent: whenever it succeeds on an input,
\* running it again on its own cleaned output succeeds and returns exactly the
\* same list.
C10_ValidateIdempotent ==
  vpc = "twice" => /\ ~vres2.raised
                   /\ vres2.valid
                   /\ vres2.clean = vres.clean

\* C11: validate_search_terms caps its input at 20 entries and fails only if the
\* clean list of the (capped) input is empty while the input was non-empty; an
\* input of more than 20 valid terms does not fail.
C11_FailsOnlyOnEmptyClean ==
  vpc \in {"once", "twice"} /\ vterms.t = "list"
    => LET capped == SubSeq(vterms.v, 1, Min(SearchTermsCap, Len(vterms.v)))
       IN  /\ ~vres.raised
           /\ ~vres.valid => vterms.v # <<>> /\ clean_terms(capped) = <<>>
           /\ vres.valid => vres.clean = clean_terms(capped)

\* C12: the Listing Fetcher never raises to its caller, whatever the keyword and
\* limit arguments and the outcome of the HTTP call: it makes at most one request,
\* returns the parsed body only on HTTP 200 and None on every failure.
C12_FetchNeverRaises ==
  vpc = "fetched"
    => LET outcome == FetchOutcomes[harg.outcome]
       IN  /\ ~hres.raised
           /\ hres.requests <= 1
           /\ hres.ret.some => outcome.kind = "ok" /\ outcome.code = 200 /\ hres.ret.data = outcome.data
           /\ outcome.kind # "ok" => hres.ret = NoData

\* the positions, among the first ten, of the listings whose fields read without
\* an exception, and the k-th of them
WellFormed(listings) ==
  {i \in 1..Min(ProcessTop, Len(listings)) : ~ListingRaises(listings[i])}
Nth(S, k) == CHOOSE i \in S : Cardinality({j \in S : j < i}) = k - 1

\* the estimates of exactly the well-formed listings among those processed, in order
SkipsOnlyBad(products, listings, term) ==
  /\ Len(products) = Cardinality(WellFormed(listings))
  /\ \A k \in 1..Len(products) :
       products[k] = Product(listings[Nth(WellFormed(listings), k)],
                             Nth(WellFormed(listings), k), term)

\* C13: an exception while reading a field of one listing makes the Metric
\* Estimator skip that listing only: the products of a term are exactly the
\* estimates of its well-formed listings among those processed, in their original
\* order, and the next search term is still processed.
C13_BadListingSkipped ==
  vpc = "estimated"
    => /\ SkipsOnlyBad(hres.products, Batch(harg.first), Term_nursery_wall_art_uk)
       /\ \E rest \in {SubSeq(hres.all_products, Len(hres.products) + 1, Len(hres.all_products))} :
            /\ hres.all_products = hres.products \o rest
            /\ SkipsOnlyBad(rest, Batch(harg.second), Term_wooden_name_plaque)

\* a batch whose first listing is malformed and whose later listings are estimated,
\* followed by a second term that yields a product
C13_Witness ==
  /\ vpc = "estimated"
  /\ harg.first = LongBatch
  /\ Len(hres.products) = 8
  /\ hres.products[1].id = 2
  /\ hres.products[8].id = 10
  /\ harg.second = <<2>>
  /\ Len(hres.all_products) = 9

\* 200 times (min(100, total_sales / 100) + min(100, (views + 2 * favorites) / 50)) / 2
Score200(product) ==
  Min(10000, product.seller_profile.total_sales.v)
    + Min(10000, 2 * (product.views + 2 * product.favorites))

Malformed(body, field, type) ==
  \/ body.data.t # "dict"
  \/ field \notin DOMAIN body.data.v
  \/ body.data.v[field].t # type

\* C15: a malformed or missing request body on create-user, delete-user or
\* update-search-terms, sent by a caller who passes the endpoint's access test, is
\* answered with HTTP 400 and leaves USERS_DB and the session unchanged.
C15_MalformedBodyIs400 ==
  [][\A s \in Sessions :
       /\ \A b \in CreateBodies :
            ~AdminRequired(s) /\ Malformed(b, "username", "str") /\ api_create_user(s, b)
              => last'.status = 400 /\ USERS_DB' = USERS_DB /\ session' = session
       /\ \A b \in DeleteBodies :
            ~AdminRequired(s) /\ Malformed(b, "username", "str") /\ api_delete_user(s, b)
              => last'.status = 400 /\ USERS_DB' = USERS_DB /\ session' = session
       /\ \A b \in SearchTermBodies :
            Authenticated(s) /\ Malformed(b, "search_terms", "list") /\ update_search_terms(s, b)
              => last'.status = 400 /\ USERS_DB' = USERS_DB /\ session' = session]_vars

\* the positions of the Critical products among the three with most revenue
CriticalTop(products) ==
  {i \in 1..Len(top_three(products)) : top_three(products)[i].priority = "Critical"}

\* C16: the handler sorts the products by revenue, takes the top 3 and emits exactly
\* one opportunity and one alert for each of them whose priority is Critical, in
\* rank order; a Critical product outside the top 3 produces neither.
C16_InsightsFromTopThree ==
  handled.ran
    => /\ handled.returned.kind = "view"
       /\ \E top \in {top_three(handled.returned.products)},
             critical \in {CriticalTop(handled.returned.products)} :
            /\ Len(handled.returned.opportunities) = Cardinality(critical)
            /\ Len(handled.returned.alerts) = Cardinality(critical)
            /\ \A k \in 1..Cardinality(critical) :
                 /\ handled.returned.opportunities[k].niche = top[Nth(critical, k)].search_term
                 /\ handled.returned.opportunities[k].revenue = top[Nth(critical, k)].revenue
                 /\ handled.returned.alerts[k].title = top[Nth(critical, k)].title
                 /\ handled.returned.alerts[k].revenue = top[Nth(critical, k)].revenue

\* the sum of a numeric field over a product list
RECURSIVE Total(_, _)
Total(products, key) ==
  IF products = <<>> THEN 0
  ELSE products[Len(products)][key] + Total(SubSeq(products, 1, Len(products) - 1), key)

\* C17: in every market view returned, total revenue and total weekly sales are the
\* sums over the returned products, critical_alerts is the number of returned
\* products with priority Critical, and market health is "Excellent" iff
\* critical_alerts > 0, for fetched products and for the demo set.
C17_SummaryMatchesProducts ==
  handled.ran /\ handled.returned.kind = "view"
    => \E products \in {handled.returned.products} :
         /\ handled.returned.total_revenue = Total(products, "revenue")
         /\ handled.returned.total_weekly_sales = Total(products, "weekly_sales")
         /\ handled.returned.critical_alerts
              = Cardinality({i \in 1..Len(products) : products[i].priority = "Critical"})
         /\ handled.returned.market_health = "Excellent" <=> handled.returned.critical_alerts > 0

\* a returned view of products fetched for several search terms, one of them Critical
C17_Witness ==
  /\ handled.ran /\ handled.returned.kind = "view"
  /\ handled.returned.products # DemoProducts
  /\ Len(handled.returned.products) > TopCount
  /\ \E i, j \in 1..Len(handled.returned.products) :
       handled.returned.products[i].search_term # handled.returned.products[j].search_term
  /\ handled.returned.critical_alerts = 1
  /\ handled.returned.total_revenue > 0
  /\ handled.returned.market_health = "Excellent"

\* the session logged in as an account that delete-user has removed since: with
\* the default environment every login names an account of USERS_DB
OfDeletedAccount(s) ==
  /\ env = DefaultEnv
  /\ session[s].username # <<>>
  /\ session[s].username[1] \notin DOMAIN USERS_DB

\* C18: once delete-user has removed account X, a session that logged in as X
\* before the deletion performs no authenticated operation successfully: its
\* update-search-terms, create-user and delete-user requests are not answered 200.
C18_DeletedAccountLocked ==
  [][\A s \in Sessions :
       OfDeletedAccount(s)
         => /\ \A b \in SearchTermBodies : update_search_terms(s, b) => last'.status # 200
            /\ \A b \in CreateBodies : api_create_user(s, b) => last'.status # 200
            /\ \A b \in DeleteBodies : api_delete_user(s, b) => last'.status # 200]_vars

\* the user name a create-user body asks for, if it carries one
RequestedName(body) ==
  IF body.data.t = "dict" /\ "username" \in DOMAIN body.data.v /\ body.data.v.username.t = "str"
  THEN <<strip(body.data.v.username.v)>> ELSE <<>>

\* C19: a create-user request whose username is already a key of USERS_DB fails and
\* leaves the whole account map unchanged; a successful create adds exactly one new
\* key and changes no other account.
C19_CreateNeverOverwrites ==
  [][\A s \in Sessions : \A b \in CreateBodies :
       last'.endpoint = "create-user" /\ api_create_user(s, b)
         => /\ RequestedName(b) # <<>> /\ RequestedName(b)[1] \in DOMAIN USERS_DB
                 => last'.status # 200 /\ USERS_DB' = USERS_DB
            /\ last'.status # 200 => USERS_DB' = USERS_DB
            /\ last'.status = 200
                 => /\ RequestedName(b)[1] \notin DOMAIN USERS_DB
                    /\ DOMAIN USERS_DB' = DOMAIN USERS_DB \cup {RequestedName(b)[1]}
                    /\ \A k \in DOMAIN USERS_DB : USERS_DB'[k] = USERS_DB[k]]_vars

\* bob was created next to the seeded administrator, and a second create-user
\* naming an existing account has just been refused
C19_Witness ==
  /\ last.endpoint = "create-user"
  /\ last.status = 400
  /\ last.msg = "Username already exists"
  /\ DOMAIN USERS_DB = {Txt_admin, Txt_bob}
  /\ USERS_DB[Txt_admin] = SeededUsers[Txt_admin]

\* nothing but the given field of the caller's session and of the caller's own
\* account (if it exists) has changed, and both now hold the cleaned list
OnlyCallerField(s, field, clean) ==
  /\ session'[s][field] = <<clean>>
  /\ \A k \in DOMAIN session[s] \ {field} : session'[s][k] = session[s][k]
  /\ \A t \in Sessions \ {s} : session'[t] = session[t]
  /\ DOMAIN USERS_DB' = DOMAIN USERS_DB
  /\ \A u \in DOMAIN USERS_DB :
       IF session[s].username = <<u>>
       THEN /\ USERS_DB'[u][field] = clean
            /\ \A k \in DOMAIN USERS_DB[u] \ {field} : USERS_DB'[u][k] = USERS_DB[u][k]
       ELSE USERS_DB'[u] = USERS_DB[u]

\* the effect of one update request whose validation returned v
AllOrNothing(s, field, v) ==
  /\ v.raised \/ ~v.valid => last'.status # 200
  /\ last'.status # 200 => session' = session /\ USERS_DB' = USERS_DB
  /\ last'.status = 200 => OnlyCallerField(s, field, v.clean)

\* C20: update-search-terms and update-watchlist are all-or-nothing and touch only
\* the caller: when validation fails neither the session nor USERS_DB changes; when
\* it succeeds the session value and the caller's own account entry (if the account
\* exists) equal the cleaned list, and nothing else changes.
C20_UpdatesAllOrNothing ==
  [][\A s \in Sessions :
       /\ \A b \in UpdateTermBodies :
            last'.endpoint = "update-search-terms" /\ update_search_terms(s, b)
              => AllOrNothing(s, "search_terms", validate_search_terms(b.data.v.search_terms))
       /\ \A b \in UpdateShopBodies :
            last'.endpoint = "update-watchlist" /\ update_watchlist(s, b)
              => AllOrNothing(s, "watchlist_shops", validate_shop_names(b.data.v.shops))]_vars

\* bob's session has stored a cleaned watchlist in the session and in bob's account
\* while the administrator's account and session keep theirs
C20_Witness ==
  /\ last.endpoint = "update-watchlist" /\ last.status = 200
  /\ session[UserSession].username = <<Txt_bob>>
  /\ Txt_bob \in DOMAIN USERS_DB
  /\ session[UserSession].watchlist_shops = <<(<<Txt_WoodCraft>>)>>
  /\ USERS_DB[Txt_bob].watchlist_shops = <<Txt_WoodCraft>>
  /\ USERS_DB[Txt_admin] = SeededUsers[Txt_admin]
  /\ session[AdminSession].username = <<Txt_admin>>
  /\ session[AdminSession].watchlist_shops # <<(<<Txt_WoodCraft>>)>>

\* the session holds no authentication, no user, no role and no settings
Cleared(sess) ==
  /\ sess.authenticated = <<>> /\ sess.username = <<>>
  /\ sess.user_role = <<>> /\ sess.user_name = <<>>
  /\ sess.search_terms = <<>> /\ sess.watchlist_shops = <<>>

\* the request just served was refused and changed neither the session nor USERS_DB
Refused(s) ==
  /\ last'.status \notin 200..299
  /\ last'.payload \in {"error", "redirect"}
  /\ Cleared(session'[s])
  /\ USERS_DB' = USERS_DB

\* C21: after GET /logout the session holds no authentication, role or settings,
\* and every later request of that session to a gated endpoint is rejected until a
\* POST /login of that session succeeds; a failed login does not restore access.
C21_LogoutEndsAccess ==
  [][\A s \in {LogoutSession} :
       /\ last'.endpoint = "logout" /\ logout(s) => Cleared(session'[s])
       /\ Cleared(session[s])
            => /\ api_create_user(s, GateCreate) => Refused(s)
               /\ api_delete_user(s, GateDelete) => Refused(s)
               /\ update_search_terms(s, GateTerms) => Refused(s)
               /\ update_watchlist(s, GateShops) => Refused(s)
               /\ home(s) => Refused(s)
               /\ settings(s) => Refused(s)
               /\ user_management(s) => Refused(s)
               /\ \A b \in LogoutLogins :
                    login(s, b) /\ last'.status # 200 => Cleared(session'[s])
               /\ ~Cleared(session'[s]) => last'.endpoint = "login" /\ last'.status = 200]_vars

\* the session created bob as administrator, logged out, and has since been
\* refused at a gated endpoint
C21_Witness ==
  /\ Txt_bob \in DOMAIN USERS_DB
  /\ Cleared(session[LogoutSession])
  /\ last.endpoint = "update-search-terms"
  /\ last.status = 401
  /\ ~last.authed

====
